---- MODULE Spec2Model ----
(***************************************************************************)
(* Voice Journal (App.tsx, NoteItem.tsx, RecorderModal.js).                *)
(*                                                                         *)
(* The screen controller is a set of async handlers running on one         *)
(* JavaScript thread.  A handler runs without interruption up to its next  *)
(* `await`; there any other handler may run.  Each action below is one     *)
(* such uninterrupted segment: the completion of the awaited platform call *)
(* (with its outcome) followed by the code up to the next await.           *)
(*                                                                         *)
(* Strings that the code inspects (uris) are sequences of tokens, so that  *)
(* includes / lastIndexOf / slice are computed and not assumed.            *)
(***************************************************************************)
EXTENDS Integers, Sequences, FiniteSets, TLC

VARIABLES
    notes,      \* useState<Note[]>            App.tsx:35
    mount,      \* where the mount effect is    App.tsx:50-59
    mounted,    \* the App component is mounted: its cleanups have not run
    stored,     \* AsyncStorage[STORAGE_KEY]
    files,      \* uris that exist in the file system
    writeQ,     \* AsyncStorage calls issued and not yet served, oldest first:
                \* the handler slot of a setItem, MountRead for the getItem
    stask,      \* in-flight Note Store handlers (add, rename, delete, restore, backup)
    soundRef,   \* useRef<Audio.Sound|null>    App.tsx:42
    sounds,     \* every Audio.Sound object created so far
    playingId,  \* useState<string|null>       App.tsx:44
    progress,   \* useState(0), scaled by 100  App.tsx:46
    rate,       \* useState(1.0), scaled by 10 App.tsx:48
    ptask,      \* in-flight playback handlers (playPause, onPause, setPlaybackSpeed)
    clock,      \* the last value Date.now() returned
    nextId,     \* number of uuid.v4() values drawn so far
    recVisible, \* useState(false)             App.tsx:37
    recording,  \* useState(null)              RecorderModal.js:8
    isRecording,\* useState(false)             RecorderModal.js:9
    processing, \* useState(false)             RecorderModal.js:10
    recs,       \* every Audio.Recording object created so far
    rtask,      \* in-flight recorder handlers (start, stopAndSave)
    saves,      \* onSave calls made: <<Recording, uuid drawn by the add>>
    recTitle,   \* useState(""), the title    RecorderModal.js:13
    ev          \* what the last step completed (observation only)

vars == <<mount, mounted, notes, stored, files, writeQ, stask, soundRef, sounds,
          playingId, progress, rate, ptask, clock, nextId,
          recVisible, recording, isRecording, processing, recs, rtask, saves, recTitle, ev>>

storeVars == <<mount, mounted, notes, stored, files, writeQ, stask, clock, nextId>>
playVars == <<soundRef, sounds, playingId, progress, rate, ptask>>
recVars == <<recVisible, recording, isRecording, processing, recs, rtask, saves, recTitle>>

----------------------------------------------------------------------------
(* Bounds *)

MaxNotes == 4
MaxEarly == 1
MaxTime == 3
MaxAdds == 2
MaxStoreCalls == 2
MaxPlayCalls == 3
MaxSounds == 3
MaxCalls == 3
MaxRecCalls == 3

None == "none"

----------------------------------------------------------------------------
(* Strings and uris *)

\* FileSystem.documentDirectory + "voiceNotes/"
VOICE_DIR == <<"doc/", "voiceNotes/">>

\* the marker tested by restore
MARKER == "voiceNotes/"

\* String.prototype.includes, on tokens
Includes(s, tok) == \E i \in 1..Len(s) : s[i] = tok

\* String.prototype.lastIndexOf, 1-based, 0 when absent
LastIndexOf(s, tok) ==
    IF Includes(s, tok)
    THEN CHOOSE i \in 1..Len(s) : s[i] = tok /\ \A j \in (i+1)..Len(s) : s[j] # tok
    ELSE 0

\* s.startsWith(p): the uri lies inside directory p
StartsWith(s, p) == Len(s) >= Len(p) /\ SubSeq(s, 1, Len(p)) = p

\* tempUri.split(".").pop() || "m4a"
ExtOf(s) ==
    LET i == LastIndexOf(s, ".")
        tail == IF i = 0 THEN s ELSE SubSeq(s, i + 1, Len(s))
    IN IF tail = <<>> THEN <<"m4a">> ELSE tail

\* uuid.v4(): the k-th value drawn
FreshIds == <<"n1", "n2", "n3">>

Uuid(k) == FreshIds[k]

\* where the recorder left the k-th capture
TempUri(k) == <<"cache/", FreshIds[k], ".", "m4a">>

\* title && title.trim() ? title.trim() : "Untitled Recording"
Trim(t) == IF t = " " THEN "" ELSE t

TitleOrDefault(t) == IF t # "" /\ Trim(t) # "" THEN Trim(t) ELSE "Untitled Recording"

\* the title the recorder hands to onSave:
\* title && title.trim() ? title.trim() : "Voice Note" (RecorderModal.js:46)
SaveTitle(t) == IF t # "" /\ Trim(t) # "" THEN Trim(t) ELSE "Voice Note"

\* reversedUriFor(note) (App.tsx:146-152); <<>> stands for null
reversedUriFor(uri) ==
    IF uri = <<>> THEN <<>>
    ELSE LET i == LastIndexOf(uri, ".")
             base == IF i = 0 THEN SubSeq(uri, 1, Len(uri) - 1) ELSE SubSeq(uri, 1, i - 1)
             ext == IF i = 0 THEN uri ELSE SubSeq(uri, i + 1, Len(uri))
         IN base \o <<"_rev", ".">> \o ext

----------------------------------------------------------------------------
(* Notes *)

MkNote(id, title, uri, createdAt, duration) ==
    [id |-> id, title |-> title, uri |-> uri, createdAt |-> createdAt, duration |-> duration]

NoteA == MkNote("a", "A", VOICE_DIR \o <<"a", ".", "m4a">>, 2, 5)
NoteB == MkNote("b", "B", VOICE_DIR \o <<"b", ".", "m4a">>, 1, 5)

\* what getItem(STORAGE_KEY) returns, as the mount effect reads it: truthy is
\* the outcome of `if (saved)`, parses says whether JSON.parse(saved) returns.
\* Absent is a value that is not truthy, null for a missing key or the empty
\* text (which is never parsed); Unparsable is a text that is not empty and
\* that JSON.parse rejects
Absent == [truthy |-> FALSE, parses |-> TRUE, list |-> <<>>]

Persisted(list) == [truthy |-> TRUE, parses |-> TRUE, list |-> list]

Unparsable == [truthy |-> TRUE, parses |-> FALSE, list |-> <<>>]

\* what an earlier run of the app, or anything else that wrote the key, may
\* have left under STORAGE_KEY
InitialStores == { Absent, Persisted(<<NoteA, NoteB>>), Unparsable }

\* entries a picked backup file may hold
OldEntry == MkNote("x", "X", VOICE_DIR \o <<"x", ".", "m4a">>, 1, 5)
NewEntry == MkNote("y", "Y", VOICE_DIR \o <<"y", ".", "m4a">>, 3, 5)
OutsideEntry == MkNote("o", "O", <<"tmp/", "other", ".", "m4a">>, 3, 5)
LookalikeEntry == MkNote("l", "L", <<"tmp/", "voiceNotes/", "l", ".", "m4a">>, 2, 5)
CollidingEntry == MkNote("a", "A2", VOICE_DIR \o <<"a2", ".", "m4a">>, 2, 5)
\* an entry of its own id whose uri is the file of NoteA
SharedEntry == MkNote("s", "S", NoteA.uri, 1, 5)

\* parsed contents of the files the document picker can return
ImportFiles ==
    { <<OldEntry, OutsideEntry>>, <<NewEntry>>, <<LookalikeEntry, NoteA>>, <<CollidingEntry>>,
      <<SharedEntry>> }

\* the list that the value under STORAGE_KEY stands for: JSON.parse(saved) when
\* there is a text that parses, no notes otherwise (App.tsx:53-58)
LoadNotes(s) == IF s.truthy /\ s.parses THEN s.list ELSE <<>>

Ids(list) == { list[i].id : i \in 1..Len(list) }

\* insert x into a list sorted by the comparator (a, b) => b.createdAt - a.createdAt,
\* after every element that does not compare greater (stable)
RECURSIVE InsertDesc(_, _)
InsertDesc(x, list) ==
    IF list = <<>> THEN <<x>>
    ELSE IF Head(list).createdAt >= x.createdAt
         THEN <<Head(list)>> \o InsertDesc(x, Tail(list))
         ELSE <<x>> \o list

\* [...list].sort((a, b) => b.createdAt - a.createdAt)
RECURSIVE SortDesc(_)
SortDesc(list) ==
    IF list = <<>> THEN <<>>
    ELSE InsertDesc(list[Len(list)], SortDesc(SubSeq(list, 1, Len(list) - 1)))

\* saveNotes without its sort
SortedNot(list) == list

\* saveNotes with the comparator the other way round: oldest first
RECURSIVE InsertAsc(_, _)
InsertAsc(x, list) ==
    IF list = <<>> THEN <<x>>
    ELSE IF Head(list).createdAt <= x.createdAt
         THEN <<Head(list)>> \o InsertAsc(x, Tail(list))
         ELSE <<x>> \o list

RECURSIVE SortedAscending(_)
SortedAscending(list) ==
    IF list = <<>> THEN <<>>
    ELSE InsertAsc(list[Len(list)], SortedAscending(SubSeq(list, 1, Len(list) - 1)))

\* the value saveNotes stores in memory and hands to setItem
Sorted(list) == SortDesc(list)

\* notes.find(n => n.id === id), for an id the list holds
Find(list, id) ==
    list[CHOOSE i \in 1..Len(list) : list[i].id = id /\ \A j \in 1..(i-1) : list[j].id # id]

\* notes.filter(n => n.id !== id)
RECURSIVE WithoutId(_, _)
WithoutId(list, id) ==
    IF list = <<>> THEN <<>>
    ELSE IF Head(list).id = id THEN WithoutId(Tail(list), id)
         ELSE <<Head(list)>> \o WithoutId(Tail(list), id)

\* a map that gives every note the new title, whatever its id
RetitledAll(list, id, newTitle) ==
    [i \in 1..Len(list) |-> [list[i] EXCEPT !.title = newTitle]]

\* notes.map(n => n.id === id ? {...n, title: newTitle} : n)
Retitled(list, id, newTitle) ==
    [i \in 1..Len(list) |-> IF list[i].id = id THEN [list[i] EXCEPT !.title = newTitle] ELSE list[i]]

\* imported.filter(i => i.uri && i.uri.includes("voiceNotes/"))
RECURSIVE ValidEntries(_)
ValidEntries(imported) ==
    IF imported = <<>> THEN <<>>
    ELSE IF Head(imported).uri # <<>> /\ Includes(Head(imported).uri, MARKER)
         THEN <<Head(imported)>> \o ValidEntries(Tail(imported))
         ELSE ValidEntries(Tail(imported))

----------------------------------------------------------------------------
(* Handlers in flight *)

NoSound == 0

\* useState(null) of the recorder modal: no Recording object held
NoRec == 0

\* requestedRate = 1.0, and useState(1.0), scaled by 10
DefaultRate == 10

IdleS ==
    [op |-> "idle", pc |-> "idle", id |-> None, title |-> "", duration |-> 0,
     notesC |-> <<>>, pidC |-> None, list |-> <<>>, imported |-> <<>>,
     uri |-> <<>>, temp |-> <<>>, snd |-> NoSound, held |-> FALSE, json |-> None,
     existed |-> FALSE]

IdleP ==
    [op |-> "idle", pc |-> "idle", note |-> None, uri |-> <<>>, play |-> <<>>,
     reverse |-> FALSE, rate |-> 0, snd |-> NoSound, prev |-> NoSound, rateC |-> 0,
     missing |-> FALSE, resume |-> FALSE]

\* a slot whose handler has returned; slots are not used twice, so the bounds
\* MaxStoreCalls and MaxPlayCalls count the handlers started in a run
DoneS == [IdleS EXCEPT !.op = "done"]

DoneP == [IdleP EXCEPT !.op = "done"]

IdleR == [op |-> "idle", pc |-> "idle", rec |-> NoRec, by |-> None, notesC |-> <<>>,
          title |-> ""]

DoneR == [IdleR EXCEPT !.op = "done"]

Step == [kind |-> "step"]

\* handlers started so far
Started ==
    Cardinality({ k \in 1..MaxStoreCalls : stask[k].op # "idle" })
        + Cardinality({ k \in 1..MaxPlayCalls : ptask[k].op # "idle" })

\* recorder handlers started so far
StartedR == Cardinality({ k \in 1..MaxRecCalls : rtask[k].op # "idle" })

\* stopAndSave calls in flight: each may go on to call onSave, which starts
\* addNoteFromRecording whatever else has happened (RecorderModal.js:46)
PendingSaves == Cardinality({ k \in 1..MaxRecCalls : rtask[k].op = "stopAndSave" })

\* slots in which a Note Store handler can start
IdleSlots == { k \in 1..MaxStoreCalls : stask[k].op = "idle" }

\* the handlers that a tap may still start: none once the component is
\* unmounted, MaxCalls in all, and MaxEarly of each component while the mount
\* effect is running.  The bounds are applied where a handler is called from
\* the screen, and count the adds that the stopAndSave calls in flight may
\* start, so that no bound stands in the way of a call the code makes after
\* an await.
Budget(n) == mounted /\ n + PendingSaves < MaxCalls /\ (mount = "done" \/ n < MaxEarly)

FreeS == { k \in IdleSlots : Budget(Started) /\ Cardinality(IdleSlots) > PendingSaves }
FreeP == { k \in 1..MaxPlayCalls : ptask[k].op = "idle" /\ Budget(Started) }
FreeR == { k \in 1..MaxRecCalls : rtask[k].op = "idle" /\ mounted
                                   /\ (mount = "done" \/ StartedR < MaxEarly) }

Lowest(S) == CHOOSE k \in S : \A j \in S : k <= j

Loaded(s) == s # NoSound /\ sounds[s].st # "unloaded"

\* sounds with sound s released: nothing of it but the note it was made for
\* can be observed any more
Unload(snds, s) ==
    [snds EXCEPT ![s] = [note |-> @.note, uri |-> <<>>, rate |-> 0, st |-> "unloaded"]]

----------------------------------------------------------------------------
(* Initial state: the first render, with no notes, while the mount effect  *)
(* waits for makeDirectoryAsync (App.tsx:35-52).  Every note that an       *)
(* earlier run stored has its audio file; the first one also has a         *)
(* reversed sibling that the user put next to it.                          *)

Init ==
    /\ stored \in InitialStores
    /\ mount = "mkdir"
    /\ mounted = TRUE
    /\ notes = <<>>
    /\ files = { LoadNotes(stored)[i].uri : i \in 1..Len(LoadNotes(stored)) }
                 \cup { reversedUriFor(LoadNotes(stored)[i].uri) : i \in 1..Len(LoadNotes(stored)) \cap {1} }
    /\ writeQ = <<>>
    /\ stask = [k \in 1..MaxStoreCalls |-> IdleS]
    /\ soundRef = NoSound
    /\ sounds = <<>>
    /\ playingId = None
    /\ progress = 0
    /\ rate = DefaultRate
    /\ ptask = [k \in 1..MaxPlayCalls |-> IdleP]
    /\ clock = 2
    /\ nextId = 0
    /\ recVisible = FALSE
    /\ recording = NoRec
    /\ isRecording = FALSE
    /\ processing = FALSE
    /\ recs = <<>>
    /\ rtask = [k \in 1..MaxRecCalls |-> IdleR]
    /\ saves = {}
    /\ recTitle = ""
    /\ ev = Step

----------------------------------------------------------------------------
(* The mount effect (App.tsx:50-59) *)

\* the entry of writeQ that stands for the getItem of the mount effect
MountRead == 0

\* makeDirectoryAsync settles, a rejection being swallowed by its catch, and
\* getItem is called (App.tsx:52-53)
MountDirDone ==
    /\ mount = "mkdir"
    /\ mount' = "getItem"
    /\ writeQ' = Append(writeQ, MountRead)
    /\ ev' = [kind |-> "mount", at |-> "mkdir", ok |-> TRUE]
    /\ UNCHANGED <<mounted, notes, stored, files, stask, clock, nextId>>
    /\ UNCHANGED playVars
    /\ UNCHANGED recVars

\* getItem settles: a text that parses replaces the notes; a value that is
\* not truthy (no key, or the empty text) empties them without being parsed;
\* JSON.parse throwing on a text that is not empty, or getItem rejecting,
\* ends the effect with the notes as they are (App.tsx:53-58)
MountGetDone ==
    /\ mount = "getItem"
    /\ writeQ # <<>> /\ Head(writeQ) = MountRead
    /\ writeQ' = Tail(writeQ)
    /\ mount' = "done"
    /\ \/ /\ stored.truthy /\ stored.parses
          /\ notes' = stored.list
          /\ ev' = [kind |-> "mount", at |-> "getItem", ok |-> TRUE]
       \/ /\ ~stored.truthy
          /\ notes' = <<>>
          /\ ev' = [kind |-> "mount", at |-> "getItem", ok |-> TRUE]
       \/ /\ stored.truthy /\ ~stored.parses
          /\ notes' = notes
          /\ ev' = [kind |-> "mount", at |-> "parse", ok |-> FALSE]
       \/ /\ notes' = notes
          /\ ev' = [kind |-> "mount", at |-> "getItem", ok |-> FALSE]
    /\ UNCHANGED <<mounted, stored, files, stask, clock, nextId>>
    /\ UNCHANGED playVars
    /\ UNCHANGED recVars

----------------------------------------------------------------------------
(* Note Store: saveNotes and the handlers that call it *)

\* what a finished Note Store handler leaves for observation
StoreDone(t, ok, alert) ==
    [kind |-> t.op, ok |-> ok, alert |-> alert, id |-> t.id, uri |-> t.uri,
     title |-> t.title, at |-> t.pc, json |-> t.json, existed |-> t.existed, before |-> t.notesC, imported |-> t.imported, list |-> t.list, held |-> t.held]

\* the handler in slot k has returned (or thrown)
FinishS(k) == [stask EXCEPT ![k] = DoneS]

\* saveNotes(list) up to its await: setNotes(sorted) and the setItem call
\* (App.tsx:69-72); the handler in slot k then waits for the write
saveNotes(k, t, list) ==
    /\ notes' = Sorted(list)
    /\ writeQ' = Append(writeQ, k)
    /\ stask' = [stask EXCEPT ![k] = [t EXCEPT !.pc = "write", !.list = Sorted(list)]]

\* addNoteFromRecording(tempUri, duration, title) up to the moveAsync call
\* (App.tsx:86-93): the n-th uuid names the destination; captured is the
\* notes of the render whose closure is running
addNoteFromRecording(n, tempUri, title, captured) ==
    [IdleS EXCEPT !.op = "add", !.pc = "move", !.id = Uuid(n),
                  !.title = title, !.duration = 5, !.notesC = captured,
                  !.uri = VOICE_DIR \o <<Uuid(n), ".">> \o ExtOf(tempUri),
                  !.temp = tempUri]

\* addNoteFromRecording called on a finished temp file, in the current render
AddCall ==
    /\ FreeS # {}
    /\ nextId + PendingSaves < MaxAdds
    /\ Len(notes) < MaxNotes
    /\ \E title \in {"", "memo"} :
        stask' = [stask EXCEPT ![Lowest(FreeS)] =
                     addNoteFromRecording(nextId + 1, TempUri(nextId + 1), title, notes)]
    /\ nextId' = nextId + 1
    /\ files' = files \cup {TempUri(nextId + 1)}
    /\ ev' = Step
    /\ UNCHANGED <<notes, stored, writeQ, clock>>
    /\ UNCHANGED playVars
    /\ UNCHANGED recVars
    /\ UNCHANGED <<mount, mounted, mounted>>

\* the note built at App.tsx:99-106, Date.now() being now
NewNote(t, now) == MkNote(t.id, TitleOrDefault(t.title), t.uri, now, t.duration)

\* moveAsync settles; on failure copyAsync is called (App.tsx:92-95),
\* on success the note is built and saved (App.tsx:99-108)
AddMoveDone(k) ==
    /\ stask[k].op = "add" /\ stask[k].pc = "move"
    /\ \/ /\ stask[k].temp \in files
          /\ files' = (files \ {stask[k].temp}) \cup {stask[k].uri}
          /\ \E now \in clock..MaxTime :
                /\ clock' = now
                /\ saveNotes(k, stask[k], <<NewNote(stask[k], now)>> \o stask[k].notesC)
       \/ /\ stask' = [stask EXCEPT ![k].pc = "copy"]
          /\ UNCHANGED <<notes, files, writeQ, clock>>
    /\ ev' = Step
    /\ UNCHANGED <<stored, nextId>>
    /\ UNCHANGED playVars
    /\ UNCHANGED recVars
    /\ UNCHANGED <<mount, mounted, mounted>>

\* copyAsync settles; on success deleteAsync(tempUri) is called (App.tsx:95-96),
\* on failure the outer catch reports (App.tsx:109-112)
AddCopyDone(k) ==
    /\ stask[k].op = "add" /\ stask[k].pc = "copy"
    /\ \/ /\ stask[k].temp \in files
          /\ files' = files \cup {stask[k].uri}
          /\ stask' = [stask EXCEPT ![k].pc = "delTmp"]
          /\ ev' = Step
       \/ /\ stask' = FinishS(k)
          /\ ev' = StoreDone(stask[k], FALSE, "Error")
          /\ UNCHANGED files
    /\ UNCHANGED <<notes, stored, writeQ, clock, nextId>>
    /\ UNCHANGED playVars
    /\ UNCHANGED recVars
    /\ UNCHANGED <<mount, mounted, mounted>>

\* deleteAsync(tempUri) settles (App.tsx:96), then the note is built and saved
AddDelTmpDone(k) ==
    /\ stask[k].op = "add" /\ stask[k].pc = "delTmp"
    /\ \/ /\ files' = files \ {stask[k].temp}
          /\ \E now \in clock..MaxTime :
                /\ clock' = now
                /\ saveNotes(k, stask[k], <<NewNote(stask[k], now)>> \o stask[k].notesC)
          /\ ev' = Step
       \/ /\ stask' = FinishS(k)
          /\ ev' = StoreDone(stask[k], FALSE, "Error")
          /\ UNCHANGED <<notes, files, writeQ, clock>>
    /\ UNCHANGED <<stored, nextId>>
    /\ UNCHANGED playVars
    /\ UNCHANGED recVars
    /\ UNCHANGED <<mount, mounted, mounted>>

\* an id that no note has
AbsentId == "zz"

\* renameNote(id, newTitle) up to the await inside saveNotes (App.tsx:115-117),
\* for the id of a note or for an id that no note has
RenameCall ==
    /\ FreeS # {}
    /\ \E id \in Ids(notes) \cup {AbsentId} :
        saveNotes(Lowest(FreeS),
                  [IdleS EXCEPT !.op = "rename", !.id = id, !.title = "R", !.notesC = notes],
                  Retitled(notes, id, "R"))
    /\ ev' = Step
    /\ UNCHANGED <<stored, files, clock, nextId>>
    /\ UNCHANGED playVars
    /\ UNCHANGED recVars
    /\ UNCHANGED <<mount, mounted, mounted>>

\* onDelete, the long-press on the row of a note: the alert "Delete
\* recording" is shown; its Delete button calls deleteNote of the render that
\* showed it, so the notes and the playingId that deleteNote closes over are
\* those of the long-press (App.tsx:323-328)
onDelete ==
    /\ FreeS # {}
    /\ \E id \in Ids(notes) :
        stask' = [stask EXCEPT ![Lowest(FreeS)] =
                     [IdleS EXCEPT !.op = "delete", !.pc = "alert", !.id = id,
                                   !.notesC = notes, !.pidC = playingId]]
    /\ ev' = [kind |-> "onDelete", alert |-> "Delete recording"]
    /\ UNCHANGED <<mount, mounted, notes, stored, files, writeQ, clock, nextId>>
    /\ UNCHANGED playVars
    /\ UNCHANGED recVars

\* the Cancel button of the alert: nothing is called (App.tsx:325)
DeleteCancel(k) ==
    /\ mounted
    /\ stask[k].op = "delete" /\ stask[k].pc = "alert"
    /\ stask' = FinishS(k)
    /\ ev' = [kind |-> "deleteCancel", id |-> stask[k].id]
    /\ UNCHANGED <<mount, mounted, notes, stored, files, writeQ, clock, nextId>>
    /\ UNCHANGED playVars
    /\ UNCHANGED recVars

\* the Delete button of the alert: deleteNote(id) up to the deleteAsync call,
\* on the note that the closed-over list holds (App.tsx:120-124, 326)
DeleteCall(k) ==
    /\ mounted
    /\ stask[k].op = "delete" /\ stask[k].pc = "alert"
    /\ stask' = [stask EXCEPT ![k].pc = "delFile",
                              ![k].uri = Find(stask[k].notesC, stask[k].id).uri,
                              ![k].held = (Loaded(soundRef) /\ sounds[soundRef].note = stask[k].id),
                              ![k].existed = (Find(stask[k].notesC, stask[k].id).uri \in files)]
    /\ ev' = Step
    /\ UNCHANGED <<mount, mounted, notes, stored, files, writeQ, clock, nextId>>
    /\ UNCHANGED playVars
    /\ UNCHANGED recVars

\* deleteAsync settles; a failure is logged and ignored; the filtered list
\* is saved (App.tsx:123-129)
DeleteFileDone(k) ==
    /\ stask[k].op = "delete" /\ stask[k].pc = "delFile"
    /\ \/ files' = files \ {stask[k].uri}
       \/ /\ stask[k].uri \in files
          /\ files' = files
    /\ saveNotes(k, stask[k], WithoutId(stask[k].notesC, stask[k].id))
    /\ ev' = Step
    /\ UNCHANGED <<stored, clock, nextId>>
    /\ UNCHANGED playVars
    /\ UNCHANGED recVars
    /\ UNCHANGED <<mount, mounted, mounted>>

\* the decimal text of a small number, as a template literal prints it
NumStr(n) == <<"0", "1", "2", "3", "4", "5", "6", "7", "8", "9">>[n + 1]

\* documentDirectory + `voice_backup_${Date.now()}.json` (App.tsx:243)
BackupPath(now) == <<"doc/", "voice_backup_", NumStr(now), ".json">>

\* backup() up to the writeAsStringAsync call: the notes of the render are
\* serialised and the path is named after Date.now() (App.tsx:240-244)
BackupCall ==
    /\ FreeS # {}
    /\ \E now \in clock..MaxTime :
        /\ clock' = now
        /\ stask' = [stask EXCEPT ![Lowest(FreeS)] =
                        [IdleS EXCEPT !.op = "backup", !.pc = "writeFile",
                                      !.notesC = notes, !.list = notes,
                                      !.uri = BackupPath(now)]]
    /\ ev' = Step
    /\ UNCHANGED <<mount, mounted, notes, stored, files, writeQ, nextId>>
    /\ UNCHANGED playVars
    /\ UNCHANGED recVars

\* writeAsStringAsync settles: the file exists and shareAsync is called, or
\* the catch shows "Backup failed" (App.tsx:244-249)
BackupWriteDone(k) ==
    /\ stask[k].op = "backup" /\ stask[k].pc = "writeFile"
    /\ \/ /\ files' = files \cup {stask[k].uri}
          /\ stask' = [stask EXCEPT ![k].pc = "share"]
          /\ ev' = Step
       \/ /\ files' = files
          /\ stask' = FinishS(k)
          /\ ev' = StoreDone(stask[k], FALSE, "Backup failed")
    /\ UNCHANGED <<mount, mounted, notes, stored, writeQ, clock, nextId>>
    /\ UNCHANGED playVars
    /\ UNCHANGED recVars

\* shareAsync settles: backup returns, or the catch shows "Backup failed"
\* (App.tsx:246-249)
BackupShareDone(k) ==
    /\ stask[k].op = "backup" /\ stask[k].pc = "share"
    /\ stask' = FinishS(k)
    /\ \/ ev' = StoreDone(stask[k], TRUE, None)
       \/ ev' = StoreDone(stask[k], FALSE, "Backup failed")
    /\ UNCHANGED <<mount, mounted, notes, stored, files, writeQ, clock, nextId>>
    /\ UNCHANGED playVars
    /\ UNCHANGED recVars

\* restore() up to the document picker (App.tsx:252-254)
RestoreCall ==
    /\ FreeS # {}
    /\ stask' = [stask EXCEPT ![Lowest(FreeS)] =
                    [IdleS EXCEPT !.op = "restore", !.pc = "pick", !.notesC = notes]]
    /\ ev' = Step
    /\ UNCHANGED <<notes, stored, files, writeQ, clock, nextId>>
    /\ UNCHANGED playVars
    /\ UNCHANGED recVars
    /\ UNCHANGED <<mount, mounted, mounted>>

\* what a picked file may hold: the JSON text of an array of entries, of a
\* value that is not an array, or text that is not JSON
PickedContents ==
    { [json |-> "array", items |-> f] : f \in ImportFiles }
        \cup { [json |-> "object", items |-> <<>>], [json |-> "malformed", items |-> <<>>] }

\* JSON.parse(content) returns and imported.filter is callable (App.tsx:262-263)
Parses(json) == json = "array"

\* restore that reports every unsuccessful end, a cancelled pick included
RestoreAlertAlways(at) == "Restore failed"

\* what restore shows when it ends without saving: nothing after a cancelled
\* pick (App.tsx:255), the alert of its catch otherwise (App.tsx:266-269)
RestoreAlert(at) == IF at = "cancelled" THEN None ELSE "Restore failed"

\* the picker settles: cancelled (silent return), thrown, or a file whose
\* content is then read (App.tsx:255-259)
RestorePickDone(k) ==
    /\ stask[k].op = "restore" /\ stask[k].pc = "pick"
    /\ \/ /\ stask' = FinishS(k)
          /\ ev' = StoreDone([stask[k] EXCEPT !.pc = "cancelled"], FALSE,
                              RestoreAlert("cancelled"))
       \/ /\ stask' = FinishS(k)
          /\ ev' = StoreDone(stask[k], FALSE, RestoreAlert("pick"))
       \/ /\ stask' = [stask EXCEPT ![k].pc = "read"]
          /\ ev' = Step
    /\ UNCHANGED <<notes, stored, files, writeQ, clock, nextId>>
    /\ UNCHANGED playVars
    /\ UNCHANGED recVars
    /\ UNCHANGED <<mount, mounted, mounted>>

\* readAsStringAsync settles with the content of the picked file; the parsed
\* entries are filtered, put in front of the list and saved (App.tsx:259-264);
\* a rejected read, text that does not parse and a parsed value without
\* filter end in the catch
RestoreReadDone(k) ==
    /\ stask[k].op = "restore" /\ stask[k].pc = "read"
    /\ \/ \E c \in PickedContents :
             /\ Parses(c.json)
             /\ Len(stask[k].notesC) + Len(ValidEntries(c.items)) <= MaxNotes
             /\ saveNotes(k, [stask[k] EXCEPT !.imported = c.items, !.json = c.json],
                          ValidEntries(c.items) \o stask[k].notesC)
             /\ ev' = Step
       \/ \E c \in PickedContents :
             /\ ~Parses(c.json)
             /\ stask' = FinishS(k)
             /\ ev' = StoreDone([stask[k] EXCEPT !.json = c.json], FALSE, RestoreAlert("read"))
             /\ UNCHANGED <<notes, writeQ>>
       \/ /\ stask' = FinishS(k)
          /\ ev' = StoreDone(stask[k], FALSE, RestoreAlert("read"))
          /\ UNCHANGED <<notes, writeQ>>
    /\ UNCHANGED <<stored, files, clock, nextId>>
    /\ UNCHANGED playVars
    /\ UNCHANGED recVars
    /\ UNCHANGED <<mount, mounted, mounted>>

\* the tail of deleteNote once the sound calls are over: the slot and the
\* playback state are cleared (App.tsx:137-140)
DeleteClear(k) ==
    /\ soundRef' = NoSound
    /\ playingId' = None
    /\ progress' = 0
    /\ stask' = FinishS(k)
    /\ ev' = StoreDone(stask[k], TRUE, None)

\* the oldest pending setItem settles and its handler continues:
\*   add      returns, or reports the failure          (App.tsx:108-112)
\*   rename   returns, or rejects                      (App.tsx:117)
\*   restore  reports success or failure               (App.tsx:264-269)
\*   delete   returns, rejects, or goes on to release the sound when the
\*            closed-over playingId is the deleted id  (App.tsx:129-141)
WriteDone(k) ==
    /\ writeQ # <<>> /\ Head(writeQ) = k
    /\ stask[k].pc = "write"
    /\ writeQ' = Tail(writeQ)
    /\ \/ /\ stored' = Persisted(stask[k].list)
          /\ IF stask[k].op = "delete" /\ stask[k].pidC = stask[k].id
             THEN IF soundRef # NoSound
                  THEN /\ stask' = [stask EXCEPT ![k].pc = "stop", ![k].snd = soundRef]
                       /\ ev' = Step
                       /\ UNCHANGED <<soundRef, playingId, progress>>
                  ELSE DeleteClear(k)
             ELSE /\ stask' = FinishS(k)
                  /\ ev' = StoreDone(stask[k], TRUE,
                                      IF stask[k].op = "restore" THEN "Restore" ELSE None)
                  /\ UNCHANGED <<soundRef, playingId, progress>>
       \/ /\ stored' = stored
          /\ stask' = FinishS(k)
          /\ ev' = StoreDone(stask[k], FALSE,
                              CASE stask[k].op = "add" -> "Error"
                                [] stask[k].op = "restore" -> "Restore failed"
                                [] OTHER -> None)
          /\ UNCHANGED <<soundRef, playingId, progress>>
    /\ UNCHANGED <<notes, files, clock, nextId, sounds, rate, ptask>>
    /\ UNCHANGED recVars
    /\ UNCHANGED <<mount, mounted, mounted>>

\* deleteNote: stopAsync settles (App.tsx:134); on success unloadAsync is
\* called on whatever the slot holds now (App.tsx:135); a failure, or an
\* empty slot, lands in the empty catch and the slot is cleared
DeleteStopDone(k) ==
    /\ stask[k].op = "delete" /\ stask[k].pc = "stop"
    /\ \/ /\ Loaded(stask[k].snd)
          /\ sounds' = [sounds EXCEPT ![stask[k].snd].st = "stopped"]
          /\ IF soundRef # NoSound
             THEN /\ stask' = [stask EXCEPT ![k].pc = "unload", ![k].snd = soundRef]
                  /\ ev' = Step
                  /\ UNCHANGED <<soundRef, playingId, progress>>
             ELSE DeleteClear(k)
       \/ /\ sounds' = sounds
          /\ DeleteClear(k)
    /\ UNCHANGED <<notes, stored, files, writeQ, clock, nextId, rate, ptask>>
    /\ UNCHANGED recVars
    /\ UNCHANGED <<mount, mounted, mounted>>

\* deleteNote: unloadAsync settles (App.tsx:135), the slot is cleared
DeleteUnloadDone(k) ==
    /\ stask[k].op = "delete" /\ stask[k].pc = "unload"
    /\ \/ sounds' = Unload(sounds, stask[k].snd)
       \/ /\ Loaded(stask[k].snd)
          /\ sounds' = sounds
    /\ DeleteClear(k)
    /\ UNCHANGED <<notes, stored, files, writeQ, clock, nextId, rate, ptask>>
    /\ UNCHANGED recVars
    /\ UNCHANGED <<mount, mounted, mounted>>

----------------------------------------------------------------------------
(* Playback: playPause, onPause, setPlaybackSpeed, the status callback *)

\* the speed menu of NoteItem: 1.0, 1.5, 2.0
Rates == {10, 15, 20}

\* status.positionMillis / status.durationMillis, scaled by 100
ProgressOf(pos, dur) == (pos * 100) \div dur

\* what a finished playback handler leaves for observation
PlayDone(t, ok, alert, snd) ==
    [kind |-> t.op, ok |-> ok, alert |-> alert, note |-> t.note, snd |-> snd,
     prev |-> t.prev, rateC |-> t.rateC, reverse |-> t.reverse, at |-> t.pc,
     uri |-> t.uri, missing |-> t.missing, resume |-> t.resume]

\* the catch of playPause (App.tsx:215-218)
PlayFail(k) ==
    /\ ptask' = [ptask EXCEPT ![k] = DoneP]
    /\ ev' = PlayDone(ptask[k], FALSE, "Playback error", NoSound)

\* playPause from "determine uri to play" up to its next await: the
\* getInfoAsync call when a reversed file is asked for, else the createAsync
\* call (App.tsx:171-194)
PlayResolve(k, t) ==
    IF t.reverse /\ reversedUriFor(t.uri) # <<>>
    THEN /\ ptask' = [ptask EXCEPT ![k] = [t EXCEPT !.pc = "info"]]
         /\ ev' = Step
    ELSE /\ ptask' = [ptask EXCEPT ![k] = [t EXCEPT !.pc = "create", !.play = t.uri]]
         /\ ev' = [kind |-> "loadStart", note |-> t.note, prev |-> t.prev, alert |-> None,
                   reverse |-> t.reverse, uri |-> t.uri, resume |-> t.resume]

\* playPause(note, {reverse, requestedRate}) up to its first await
\* (App.tsx:157-161)
playPause(note, reverse, requestedRate) ==
    /\ FreeP # {}
    /\ Len(sounds) + Cardinality({j \in 1..MaxPlayCalls : ptask[j].op = "play"}) < MaxSounds
    /\ LET k == Lowest(FreeP)
           t == [IdleP EXCEPT !.op = "play", !.note = note.id, !.uri = note.uri,
                              !.reverse = reverse, !.rate = requestedRate,
                              !.prev = IF Loaded(soundRef) THEN soundRef ELSE NoSound,
                              !.rateC = IF \E s \in 1..Len(sounds) : Loaded(s) THEN 0 ELSE rate,
                              !.resume = (/\ Loaded(soundRef)
                                          /\ sounds[soundRef].st = "paused"
                                          /\ sounds[soundRef].note = note.id)]
       IN IF soundRef # NoSound
          THEN /\ ptask' = [ptask EXCEPT ![k] = [t EXCEPT !.pc = "status", !.snd = soundRef]]
               /\ ev' = Step
          ELSE PlayResolve(k, t)
    /\ UNCHANGED <<soundRef, sounds, playingId, progress, rate>>
    /\ UNCHANGED storeVars
    /\ UNCHANGED recVars

\* the play / pause button of a row that is not shown as playing:
\* onPlay({reverse: false}), so requestedRate takes its default
\* (NoteItem.tsx handlePlayPause, App.tsx:313)
PlayButton ==
    \E i \in 1..Len(notes) :
        /\ playingId # notes[i].id
        /\ playPause(notes[i], FALSE, DefaultRate)

\* the reverse button: requestPlay(true) (NoteItem.tsx handleReverse, App.tsx:331)
ReverseButton ==
    \E i \in 1..Len(notes) : playPause(notes[i], TRUE, rate)

\* getStatusAsync settles (App.tsx:161-169)
PlayStatusDone(k) ==
    /\ ptask[k].op = "play" /\ ptask[k].pc = "status"
    /\ \/ /\ PlayFail(k)
          /\ UNCHANGED <<soundRef, playingId, progress>>
       \/ /\ Loaded(ptask[k].snd)
          /\ IF soundRef # NoSound
             THEN /\ ptask' = [ptask EXCEPT ![k].pc = "stop", ![k].snd = soundRef]
                  /\ ev' = Step
             ELSE PlayFail(k)
          /\ UNCHANGED <<soundRef, playingId, progress>>
       \/ /\ ~Loaded(ptask[k].snd)
          /\ soundRef' = NoSound
          /\ playingId' = None
          /\ progress' = 0
          /\ PlayResolve(k, ptask[k])
    /\ UNCHANGED <<sounds, rate>>
    /\ UNCHANGED storeVars
    /\ UNCHANGED recVars

\* stopAsync settles; unloadAsync is called on what the slot holds now
\* (App.tsx:163-164)
PlayStopDone(k) ==
    /\ ptask[k].op = "play" /\ ptask[k].pc = "stop"
    /\ \/ /\ PlayFail(k)
          /\ sounds' = sounds
       \/ /\ Loaded(ptask[k].snd)
          /\ sounds' = [sounds EXCEPT ![ptask[k].snd].st = "stopped"]
          /\ IF soundRef # NoSound
             THEN /\ ptask' = [ptask EXCEPT ![k].pc = "unload", ![k].snd = soundRef]
                  /\ ev' = Step
             ELSE PlayFail(k)
    /\ UNCHANGED <<soundRef, playingId, progress, rate>>
    /\ UNCHANGED storeVars
    /\ UNCHANGED recVars

\* unloadAsync settles; the slot and the playback state are cleared
\* (App.tsx:164-168)
PlayUnloadDone(k) ==
    /\ ptask[k].op = "play" /\ ptask[k].pc = "unload"
    /\ \/ /\ Loaded(ptask[k].snd)
          /\ PlayFail(k)
          /\ UNCHANGED <<soundRef, sounds, playingId, progress>>
       \/ /\ sounds' = Unload(sounds, ptask[k].snd)
          /\ soundRef' = NoSound
          /\ playingId' = None
          /\ progress' = 0
          /\ PlayResolve(k, ptask[k])
    /\ UNCHANGED rate
    /\ UNCHANGED storeVars
    /\ UNCHANGED recVars

\* a choice of uri without the fallback: the reversed name, existing or not
UriToPlayNoFallback(uri, exists) == reversedUriFor(uri)

\* uriToPlay once getInfoAsync(rev) has told whether rev exists
\* (App.tsx:178-187)
UriToPlay(uri, exists) == IF exists THEN reversedUriFor(uri) ELSE uri

\* getInfoAsync settles: the reversed file is played when it exists, else
\* the user is told and the original is played (App.tsx:177-194)
PlayInfoDone(k) ==
    /\ ptask[k].op = "play" /\ ptask[k].pc = "info"
    /\ \/ PlayFail(k)
       \/ LET exists == reversedUriFor(ptask[k].uri) \in files
          IN /\ ptask' = [ptask EXCEPT ![k].pc = "create",
                                       ![k].play = UriToPlay(ptask[k].uri, exists),
                                       ![k].missing = ~exists]
             /\ ev' = [kind |-> "loadStart", note |-> ptask[k].note, prev |-> ptask[k].prev,
                       alert |-> IF exists THEN None ELSE "Reversed file not found",
                       reverse |-> TRUE, uri |-> ptask[k].uri, resume |-> ptask[k].resume]
    /\ UNCHANGED <<soundRef, sounds, playingId, progress, rate>>
    /\ UNCHANGED storeVars
    /\ UNCHANGED recVars

\* createAsync settles: the new sound goes into the slot and gets its
\* status callback (App.tsx:191-199)
PlayCreateDone(k) ==
    /\ ptask[k].op = "play" /\ ptask[k].pc = "create"
    /\ \/ /\ PlayFail(k)
          /\ UNCHANGED <<soundRef, sounds, playingId, rate>>
       \/ /\ ptask[k].play \in files
          /\ sounds' = Append(sounds, [note |-> ptask[k].note, uri |-> ptask[k].play,
                                        rate |-> ptask[k].rate, st |-> "playing"])
          /\ soundRef' = Len(sounds) + 1
          /\ playingId' = ptask[k].note
          /\ rate' = ptask[k].rate
          /\ ptask' = [ptask EXCEPT ![k] = DoneP]
          /\ ev' = PlayDone(ptask[k], TRUE, None, Len(sounds) + 1)
    /\ UNCHANGED progress
    /\ UNCHANGED storeVars
    /\ UNCHANGED recVars

\* the play / pause button of the row shown as playing: onPause up to its
\* await (NoteItem.tsx handlePlayPause, App.tsx:314-317)
PauseButton ==
    /\ playingId \in Ids(notes)
    /\ soundRef # NoSound
    /\ FreeP # {}
    /\ ptask' = [ptask EXCEPT ![Lowest(FreeP)] =
                    [IdleP EXCEPT !.op = "pause", !.pc = "pause", !.note = playingId,
                                  !.snd = soundRef]]
    /\ ev' = Step
    /\ UNCHANGED <<soundRef, sounds, playingId, progress, rate>>
    /\ UNCHANGED storeVars
    /\ UNCHANGED recVars

\* pauseAsync settles: playingId is cleared; a failure is swallowed
\* (App.tsx:316-319)
PauseDone(k) ==
    /\ ptask[k].op = "pause" /\ ptask[k].pc = "pause"
    /\ \/ /\ Loaded(ptask[k].snd)
          /\ sounds' = [sounds EXCEPT ![ptask[k].snd].st = "paused"]
          /\ playingId' = None
          /\ ev' = PlayDone(ptask[k], TRUE, None, ptask[k].snd)
       \/ /\ UNCHANGED <<sounds, playingId>>
          /\ ev' = PlayDone(ptask[k], FALSE, None, ptask[k].snd)
    /\ ptask' = [ptask EXCEPT ![k] = DoneP]
    /\ UNCHANGED <<soundRef, progress, rate>>
    /\ UNCHANGED storeVars
    /\ UNCHANGED recVars

\* setPlaybackSpeed(newRate) from the speed menu, up to its await: the stored
\* rate becomes newRate, whatever it was, and setRateAsync(newRate) is called on
\* the sound the slot holds, if any (App.tsx:221-225)
setPlaybackSpeed ==
    /\ notes # <<>>
    /\ FreeP # {}
    /\ \E r \in Rates :
        /\ rate' = r
        /\ ptask' = [k \in 1..MaxPlayCalls |->
                        IF k = Lowest(FreeP)
                        THEN IF soundRef = NoSound THEN DoneP
                             ELSE [IdleP EXCEPT !.op = "setRate", !.pc = "setRate",
                                                !.snd = soundRef, !.rate = r]
                        ELSE IF ptask[k].op = "play" THEN [ptask[k] EXCEPT !.rateC = 0]
                        ELSE ptask[k]]
        /\ ev' = [kind |-> "setRate", rate |-> r, snd |-> soundRef]
    /\ UNCHANGED <<soundRef, sounds, playingId, progress>>
    /\ UNCHANGED storeVars
    /\ UNCHANGED recVars

\* setRateAsync settles: the sound takes the rate, or the call rejects (it
\* does when the sound is no longer loaded) and the rejection is only logged
\* (App.tsx:224-228)
SetRateDone(k) ==
    /\ ptask[k].op = "setRate" /\ ptask[k].pc = "setRate"
    /\ \/ /\ Loaded(ptask[k].snd)
          /\ sounds' = [sounds EXCEPT ![ptask[k].snd].rate = ptask[k].rate]
          /\ ev' = [kind |-> "setRateDone", ok |-> TRUE, snd |-> ptask[k].snd]
       \/ /\ UNCHANGED sounds
          /\ ev' = [kind |-> "setRateDone", ok |-> FALSE, snd |-> ptask[k].snd]
    /\ ptask' = [ptask EXCEPT ![k] = DoneP]
    /\ UNCHANGED <<soundRef, playingId, progress, rate>>
    /\ UNCHANGED storeVars
    /\ UNCHANGED recVars

\* positions a status update may report before the end, and the length
Positions == {1}
DurationMillis == 2

\* the status callback of sound s, not finished: the callback stays set until
\* the sound is unloaded, and progress is updated whether the sound plays or
\* is paused (App.tsx:199-206)
StatusUpdate(s) ==
    /\ Loaded(s)
    /\ \E pos \in Positions :
        /\ progress' = ProgressOf(pos, DurationMillis)
        /\ progress' # progress
    /\ ev' = [kind |-> "status", snd |-> s]
    /\ UNCHANGED <<soundRef, sounds, playingId, rate, ptask>>
    /\ UNCHANGED storeVars
    /\ UNCHANGED recVars

\* the status callback of sound s with didJustFinish: whatever the slot
\* holds is unloaded (errors swallowed) and the playback state is cleared
\* (App.tsx:207-213)
StatusFinish(s) ==
    /\ sounds[s].st = "playing"
    /\ \/ /\ soundRef # NoSound
          /\ sounds' = Unload([sounds EXCEPT ![s].st = "finished"], soundRef)
       \/ /\ soundRef = NoSound \/ Loaded(soundRef)
          /\ sounds' = [sounds EXCEPT ![s].st = "finished"]
    /\ soundRef' = NoSound
    /\ playingId' = None
    /\ progress' = 0
    /\ ev' = [kind |-> "finish", snd |-> s, slot |-> soundRef, pid |-> playingId,
              held |-> Loaded(soundRef),
              failed |-> (soundRef # NoSound /\ sounds'[soundRef].st # "unloaded")]
    /\ UNCHANGED <<rate, ptask>>
    /\ UNCHANGED storeVars
    /\ UNCHANGED recVars

----------------------------------------------------------------------------
(* Recorder modal: start, stopAndSave, the buttons, the back request.      *)
(* App renders <RecorderModal visible={recVisible} .../> unconditionally   *)
(* (App.tsx:352-356), so the component stays mounted while hidden and its  *)
(* effect cleanup runs only when `recording` changes.                      *)

\* rec.getURI(): the file the n-th Recording object writes to
RecIds == <<"r1", "r2", "r3", "r4", "r5">>
RecUri(r) == <<"cache/", RecIds[r], ".", "m4a">>

\* states of a Recording object in which it occupies the recorder
Live == {"prepared", "recording"}

\* expo-av lets prepareToRecordAsync go ahead only while no recorder exists
RecorderExists == \E r \in 1..Len(recs) : recs[r] \in Live

\* what a finished recorder handler leaves for observation
RecDone(t, ok, alert, saved) ==
    [kind |-> t.op, ok |-> ok, alert |-> alert, rec |-> t.rec, by |-> t.by,
     saved |-> saved, at |-> t.pc]

\* the catch of start (RecorderModal.js:33)
StartFail(k) ==
    /\ rtask' = [rtask EXCEPT ![k] = DoneR]
    /\ ev' = RecDone(rtask[k], FALSE, "Could not start recording.", FALSE)

\* the cleanup of the effect keyed on `recording`, run when the state moves
\* away from old: old.stopAndUnloadAsync().catch(()=>{}). The outcomes: the
\* recording is stopped, or the call rejects, the rejection is swallowed and
\* the recording stays as it was (RecorderModal.js:15-21)
Cleanup(rs, old) ==
    IF old # NoRec /\ rs[old] \in Live THEN {[rs EXCEPT ![old] = "done"], rs} ELSE {rs}

\* the floating button: setRecVisible(true) (App.tsx:345)
OpenRecorder ==
    /\ mounted
    /\ ~recVisible
    /\ recVisible' = TRUE
    /\ ev' = Step
    /\ UNCHANGED <<recording, isRecording, processing, recs, rtask>>
    /\ UNCHANGED storeVars
    /\ UNCHANGED playVars
    /\ UNCHANGED <<saves, recTitle>>

\* onClose: setRecVisible(false) (App.tsx:354)
onClose ==
    /\ recVisible' = FALSE
    /\ ev' = [kind |-> "onClose", recording |-> recording]
    /\ UNCHANGED <<recording, isRecording, processing, recs, rtask>>
    /\ UNCHANGED storeVars
    /\ UNCHANGED playVars
    /\ UNCHANGED saves

\* the titles that can be typed into the recorder
TypedTitles == {"", " ", "memo"}

\* the title input: onChangeText={setTitle} (RecorderModal.js:63-69)
setTitle ==
    /\ mounted
    /\ recVisible
    /\ \E t \in TypedTitles :
          /\ t # recTitle
          /\ recTitle' = t
    /\ ev' = Step
    /\ UNCHANGED <<recVisible, recording, isRecording, processing, recs, rtask, saves>>
    /\ UNCHANGED storeVars
    /\ UNCHANGED playVars

\* start() up to the await of requestPermissionsAsync (RecorderModal.js:23-25)
start ==
    /\ FreeR # {}
    /\ rtask' = [rtask EXCEPT ![Lowest(FreeR)] = [IdleR EXCEPT !.op = "start", !.pc = "perm"]]
    /\ ev' = Step
    /\ UNCHANGED <<recVisible, recording, isRecording, processing, recs>>
    /\ UNCHANGED storeVars
    /\ UNCHANGED playVars
    /\ UNCHANGED saves

\* room for the add that a stopAndSave called now may start when it completes
CanSave ==
    /\ Cardinality(IdleSlots) > PendingSaves
    /\ Started + PendingSaves < MaxCalls
    /\ nextId + PendingSaves < MaxAdds
    /\ Len(notes) < MaxNotes

\* stopAndSave() up to the await of stopAndUnloadAsync (RecorderModal.js:36-39);
\* by is the button that called it.  The closure holds the recording and the
\* title of the render that was tapped, and through onSave the notes of that
\* render.  Nothing in the function looks at processing or at what an
\* earlier call has done.
stopAndSave(by) ==
    /\ FreeR # {}
    /\ recording # NoRec => CanSave
    /\ IF recording = NoRec
       THEN /\ processing' = FALSE
            /\ rtask' = [rtask EXCEPT ![Lowest(FreeR)] = DoneR]
            /\ ev' = RecDone([IdleR EXCEPT !.op = "stopAndSave", !.pc = "stop", !.by = by],
                             FALSE, "Could not save recording.", FALSE)
       ELSE /\ processing' = TRUE
            /\ rtask' = [rtask EXCEPT ![Lowest(FreeR)] =
                            [IdleR EXCEPT !.op = "stopAndSave", !.pc = "stop", !.rec = recording,
                                          !.by = by, !.notesC = notes,
                                          !.title = recTitle]]
            /\ ev' = Step
    /\ UNCHANGED <<recVisible, recording, isRecording, recs>>
    /\ UNCHANGED storeVars
    /\ UNCHANGED playVars
    /\ UNCHANGED saves

\* the record button: onPress={isRecording ? stopAndSave : start}
\* (RecorderModal.js:72)
RecordButton ==
    /\ mounted
    /\ recVisible
    /\ IF isRecording THEN stopAndSave("record") ELSE start
    /\ UNCHANGED recTitle

\* the Close button (RecorderModal.js:79)
CloseButton ==
    /\ mounted
    /\ recVisible
    /\ IF isRecording
       THEN stopAndSave("close") /\ UNCHANGED recTitle
       ELSE recTitle' = "" /\ onClose

\* the Done button (RecorderModal.js:80)
DoneButton ==
    /\ mounted
    /\ recVisible
    /\ IF isRecording THEN stopAndSave("done") ELSE onClose
    /\ UNCHANGED recTitle

\* the platform back request: onRequestClose={onClose} (RecorderModal.js:56)
BackRequest ==
    /\ mounted
    /\ recVisible
    /\ onClose
    /\ UNCHANGED recTitle

\* requestPermissionsAsync settles: granted, refused (the user is told and
\* start returns), or thrown (RecorderModal.js:25-27)
StartPermDone(k) ==
    /\ rtask[k].op = "start" /\ rtask[k].pc = "perm"
    /\ \/ /\ rtask' = [rtask EXCEPT ![k].pc = "mode"]
          /\ ev' = Step
       \/ /\ rtask' = [rtask EXCEPT ![k] = DoneR]
          /\ ev' = RecDone(rtask[k], FALSE, "Permission required", FALSE)
       \/ StartFail(k)
    /\ UNCHANGED <<recVisible, recording, isRecording, processing, recs>>
    /\ UNCHANGED storeVars
    /\ UNCHANGED playVars
    /\ UNCHANGED <<saves, recTitle>>

\* setAudioModeAsync settles; a Recording is made and prepareToRecordAsync
\* called, which throws at once when a recorder exists (RecorderModal.js:27-29)
StartModeDone(k) ==
    /\ rtask[k].op = "start" /\ rtask[k].pc = "mode"
    /\ \/ /\ ~RecorderExists
          /\ recs' = Append(recs, "new")
          /\ rtask' = [rtask EXCEPT ![k].pc = "prepare", ![k].rec = Len(recs) + 1]
          /\ ev' = Step
       \/ /\ StartFail(k)
          /\ recs' = recs
    /\ UNCHANGED <<recVisible, recording, isRecording, processing>>
    /\ UNCHANGED storeVars
    /\ UNCHANGED playVars
    /\ UNCHANGED <<saves, recTitle>>

\* prepareToRecordAsync settles; startAsync is called (RecorderModal.js:29-30)
StartPrepareDone(k) ==
    /\ rtask[k].op = "start" /\ rtask[k].pc = "prepare"
    /\ \/ /\ recs' = [recs EXCEPT ![rtask[k].rec] = "prepared"]
          /\ files' = files \cup {RecUri(rtask[k].rec)}
          /\ rtask' = [rtask EXCEPT ![k].pc = "startRec"]
          /\ ev' = Step
       \/ /\ StartFail(k)
          /\ UNCHANGED <<recs, files>>
    /\ UNCHANGED <<recVisible, recording, isRecording, processing>>
    /\ UNCHANGED <<notes, stored, writeQ, stask, clock, nextId>>
    /\ UNCHANGED playVars
    /\ UNCHANGED <<saves, recTitle>>
    /\ UNCHANGED <<mount, mounted, mounted>>

\* startAsync settles: setRecording(rec), setIsRecording(true); the effect
\* cleanup stops the recording that the state held before, unless the
\* component is unmounted and its effects have been torn down
\* (RecorderModal.js:30-32, 15-21)
StartRecDone(k) ==
    /\ rtask[k].op = "start" /\ rtask[k].pc = "startRec"
    /\ \/ /\ recs' \in IF mounted
                       THEN Cleanup([recs EXCEPT ![rtask[k].rec] = "recording"], recording)
                       ELSE {[recs EXCEPT ![rtask[k].rec] = "recording"]}
          /\ recording' = rtask[k].rec
          /\ isRecording' = TRUE
          /\ rtask' = [rtask EXCEPT ![k] = DoneR]
          /\ ev' = RecDone(rtask[k], TRUE, None, FALSE)
       \/ /\ StartFail(k)
          /\ UNCHANGED <<recs, recording, isRecording>>
    /\ UNCHANGED <<recVisible, processing>>
    /\ UNCHANGED storeVars
    /\ UNCHANGED playVars
    /\ UNCHANGED <<saves, recTitle>>

\* the catch of stopAndSave (RecorderModal.js:52)
StopFail(k) ==
    /\ processing' = FALSE
    /\ rtask' = [rtask EXCEPT ![k] = DoneR]
    /\ ev' = RecDone(rtask[k], FALSE, "Could not save recording.", FALSE)

\* stopAndUnloadAsync settles (RecorderModal.js:39): the call is made on the
\* Recording of the closure with no test of its state.  It resolves, leaving
\* the recorder unloaded, or it rejects.  Whether a call resolves on a
\* Recording that another call has already unloaded is decided by expo-av and
\* by nothing in the program, so both outcomes are admitted for it.  Then
\* getURI, and getStatusAsync is called (RecorderModal.js:40-41)
StopDone(k) ==
    /\ rtask[k].op = "stopAndSave" /\ rtask[k].pc = "stop"
    /\ \/ /\ recs' = [recs EXCEPT ![rtask[k].rec] = "done"]
          /\ rtask' = [rtask EXCEPT ![k].pc = "status"]
          /\ ev' = Step
          /\ UNCHANGED processing
       \/ /\ StopFail(k)
          /\ recs' = recs
    /\ UNCHANGED <<recVisible, recording, isRecording>>
    /\ UNCHANGED storeVars
    /\ UNCHANGED playVars
    /\ UNCHANGED <<saves, recTitle>>

\* getStatusAsync settles: the state is reset, onSave starts
\* addNoteFromRecording with the title of the closure, the modal is closed and
\* the title cleared; the effect cleanup runs for the recording the state held
\* while the component is mounted (RecorderModal.js:41-51, 15-21)
StopStatusDone(k) ==
    /\ rtask[k].op = "stopAndSave" /\ rtask[k].pc = "status"
    /\ \/ /\ isRecording' = FALSE
          /\ recording' = NoRec
          /\ recs' \in IF mounted THEN Cleanup(recs, recording) ELSE {recs}
          /\ stask' = [stask EXCEPT ![Lowest(IdleSlots)] =
                          addNoteFromRecording(nextId + 1, RecUri(rtask[k].rec),
                                               SaveTitle(rtask[k].title), rtask[k].notesC)]
          /\ nextId' = nextId + 1
          /\ saves' = saves \cup {<<rtask[k].rec, nextId + 1>>}
          /\ processing' = FALSE
          /\ recVisible' = FALSE
          /\ recTitle' = ""
          /\ rtask' = [rtask EXCEPT ![k] = DoneR]
          /\ ev' = RecDone(rtask[k], TRUE, None, TRUE)
       \/ /\ StopFail(k)
          /\ UNCHANGED <<recVisible, recording, isRecording, recs, stask, nextId, saves,
                         recTitle>>
    /\ UNCHANGED <<mount, mounted, notes, stored, files, writeQ, clock>>
    /\ UNCHANGED playVars

----------------------------------------------------------------------------
(* Unmount *)

\* the component is unmounted and the cleanups of its effects run: the sound
\* in the slot is unloaded, a rejection being swallowed, and the slot is
\* emptied (App.tsx:61-66); the recorder modal, a child, stops the recording
\* its state holds (RecorderModal.js:15-21).  Nothing can be tapped any more;
\* calls that are awaiting go on when they settle.
Unmount ==
    /\ mounted
    /\ mounted' = FALSE
    /\ \/ /\ soundRef # NoSound
          /\ sounds' = Unload(sounds, soundRef)
       \/ /\ soundRef = NoSound \/ Loaded(soundRef)
          /\ sounds' = sounds
    /\ soundRef' = NoSound
    /\ recs' \in Cleanup(recs, recording)
    /\ ev' = [kind |-> "unmount", slot |-> soundRef]
    /\ UNCHANGED <<mount, notes, stored, files, writeQ, stask, clock, nextId>>
    /\ UNCHANGED <<playingId, progress, rate, ptask>>
    /\ UNCHANGED <<recVisible, recording, isRecording, processing, rtask, saves, recTitle>>

----------------------------------------------------------------------------
(* Specifications *)

StoreNext ==
    \/ MountDirDone
    \/ MountGetDone
    \/ AddCall
    \/ \E k \in 1..MaxStoreCalls : AddMoveDone(k)
    \/ \E k \in 1..MaxStoreCalls : AddCopyDone(k)
    \/ \E k \in 1..MaxStoreCalls : AddDelTmpDone(k)
    \/ RenameCall
    \/ onDelete
    \/ \E k \in 1..MaxStoreCalls : DeleteCancel(k)
    \/ \E k \in 1..MaxStoreCalls : DeleteCall(k)
    \/ \E k \in 1..MaxStoreCalls : DeleteFileDone(k)
    \/ RestoreCall
    \/ \E k \in 1..MaxStoreCalls : RestorePickDone(k)
    \/ \E k \in 1..MaxStoreCalls : RestoreReadDone(k)
    \/ \E k \in 1..MaxStoreCalls : WriteDone(k)

BackupNext ==
    \/ MountDirDone
    \/ MountGetDone
    \/ AddCall
    \/ \E k \in 1..MaxStoreCalls : AddMoveDone(k)
    \/ \E k \in 1..MaxStoreCalls : AddCopyDone(k)
    \/ \E k \in 1..MaxStoreCalls : AddDelTmpDone(k)
    \/ \E k \in 1..MaxStoreCalls : WriteDone(k)
    \/ BackupCall
    \/ \E k \in 1..MaxStoreCalls : BackupWriteDone(k)
    \/ \E k \in 1..MaxStoreCalls : BackupShareDone(k)

PlayNext ==
    \/ MountDirDone
    \/ MountGetDone
    \/ PlayButton
    \/ ReverseButton
    \/ \E k \in 1..MaxPlayCalls : PlayStatusDone(k)
    \/ \E k \in 1..MaxPlayCalls : PlayStopDone(k)
    \/ \E k \in 1..MaxPlayCalls : PlayUnloadDone(k)
    \/ \E k \in 1..MaxPlayCalls : PlayInfoDone(k)
    \/ \E k \in 1..MaxPlayCalls : PlayCreateDone(k)
    \/ PauseButton
    \/ \E k \in 1..MaxPlayCalls : PauseDone(k)
    \/ setPlaybackSpeed
    \/ \E k \in 1..MaxPlayCalls : SetRateDone(k)
    \/ \E s \in 1..Len(sounds) : StatusUpdate(s)
    \/ \E s \in 1..Len(sounds) : StatusFinish(s)

PlayDeleteNext ==
    \/ MountDirDone
    \/ MountGetDone
    \/ PlayButton
    \/ \E k \in 1..MaxPlayCalls : PlayStatusDone(k)
    \/ \E k \in 1..MaxPlayCalls : PlayStopDone(k)
    \/ \E k \in 1..MaxPlayCalls : PlayUnloadDone(k)
    \/ \E k \in 1..MaxPlayCalls : PlayCreateDone(k)
    \/ PauseButton
    \/ \E k \in 1..MaxPlayCalls : PauseDone(k)
    \/ \E s \in 1..Len(sounds) : StatusFinish(s)
    \/ onDelete
    \/ \E k \in 1..MaxStoreCalls : DeleteCancel(k)
    \/ \E k \in 1..MaxStoreCalls : DeleteCall(k)
    \/ \E k \in 1..MaxStoreCalls : DeleteFileDone(k)
    \/ \E k \in 1..MaxStoreCalls : WriteDone(k)
    \/ \E k \in 1..MaxStoreCalls : DeleteStopDone(k)
    \/ \E k \in 1..MaxStoreCalls : DeleteUnloadDone(k)

RecNext ==
    \/ MountDirDone
    \/ MountGetDone
    \/ OpenRecorder
    \/ RecordButton
    \/ CloseButton
    \/ DoneButton
    \/ BackRequest
    \/ setTitle
    \/ \E k \in 1..MaxRecCalls : StartPermDone(k)
    \/ \E k \in 1..MaxRecCalls : StartModeDone(k)
    \/ \E k \in 1..MaxRecCalls : StartPrepareDone(k)
    \/ \E k \in 1..MaxRecCalls : StartRecDone(k)
    \/ \E k \in 1..MaxRecCalls : StopDone(k)
    \/ \E k \in 1..MaxRecCalls : StopStatusDone(k)
    \/ \E k \in 1..MaxStoreCalls : AddMoveDone(k)
    \/ \E k \in 1..MaxStoreCalls : AddCopyDone(k)
    \/ \E k \in 1..MaxStoreCalls : AddDelTmpDone(k)
    \/ \E k \in 1..MaxStoreCalls : WriteDone(k)

UnmountNext ==
    \/ MountDirDone
    \/ MountGetDone
    \/ PlayButton
    \/ \E k \in 1..MaxPlayCalls : PlayStatusDone(k)
    \/ \E k \in 1..MaxPlayCalls : PlayStopDone(k)
    \/ \E k \in 1..MaxPlayCalls : PlayUnloadDone(k)
    \/ \E k \in 1..MaxPlayCalls : PlayCreateDone(k)
    \/ \E s \in 1..Len(sounds) : StatusFinish(s)
    \/ Unmount

RecUnmountNext ==
    \/ MountDirDone
    \/ MountGetDone
    \/ OpenRecorder
    \/ RecordButton
    \/ \E k \in 1..MaxRecCalls : StartPermDone(k)
    \/ \E k \in 1..MaxRecCalls : StartModeDone(k)
    \/ \E k \in 1..MaxRecCalls : StartPrepareDone(k)
    \/ \E k \in 1..MaxRecCalls : StartRecDone(k)
    \/ \E k \in 1..MaxRecCalls : StopDone(k)
    \/ \E k \in 1..MaxRecCalls : StopStatusDone(k)
    \/ \E k \in 1..MaxStoreCalls : AddMoveDone(k)
    \/ \E k \in 1..MaxStoreCalls : AddCopyDone(k)
    \/ \E k \in 1..MaxStoreCalls : AddDelTmpDone(k)
    \/ \E k \in 1..MaxStoreCalls : WriteDone(k)
    \/ Unmount

Next == StoreNext \/ BackupNext \/ PlayNext \/ PlayDeleteNext \/ RecNext \/ UnmountNext \/ RecUnmountNext

\* the Note Store alone: add, rename, remove, import
SpecStore == Init /\ [][StoreNext]_vars

\* backups taken while notes are added
SpecBackup == Init /\ [][BackupNext]_vars

\* the component unmounted while sounds are loaded or being loaded
SpecUnmount == Init /\ [][UnmountNext]_vars

\* the component unmounted while a recording is started or held
SpecRecUnmount == Init /\ [][RecUnmountNext]_vars

\* playback: play, reverse, pause, speed, the status callback
SpecPlay == Init /\ [][PlayNext]_vars

\* playback of notes that are being removed
SpecPlayDelete == Init /\ [][PlayDeleteNext]_vars

\* the recorder modal, with the add that its save starts
SpecRec == Init /\ [][RecNext]_vars

Spec == Init /\ [][Next]_vars

----------------------------------------------------------------------------
(* Properties of the Note Store *)

StoreOps == {"add", "rename", "delete", "restore"}

\* no Note Store handler is between two of its awaits
StoreQuiet == \A k \in 1..MaxStoreCalls : stask[k].op \in {"idle", "done"}

IsSortedDesc(list) ==
    \A i, j \in 1..Len(list) : i < j => list[i].createdAt >= list[j].createdAt

\* a occurs in list at a smaller index than some occurrence of b
Precedes(list, a, b) ==
    \E p, q \in 1..Len(list) : p < q /\ list[p] = a /\ list[q] = b

Occurs(list, a) == \E p \in 1..Len(list) : list[p] = a

\* C4: when a Note Store mutation has completed and none is in flight, the
\* list in memory is the list stored under the persistence key, whether the
\* write succeeded or failed.
C4_MemoryEqualsPersisted ==
    (ev.kind \in StoreOps /\ StoreQuiet) => notes = LoadNotes(stored)

\* C5: the list in memory and the persisted list are ordered by createdAt,
\* newest first, in every state (so after any mutations, in any order).
C5_SortedNewestFirst ==
    IsSortedDesc(notes) /\ IsSortedDesc(LoadNotes(stored))

\* an import has just succeeded on a list of two notes with an entry older
\* than the newest of them, and the list in memory and the persisted list
\* now hold the three of them
C5_Witness ==
    /\ ev.kind = "restore" /\ ev.ok
    /\ Len(ev.before) = 2
    /\ ValidEntries(ev.imported) # <<>>
    /\ ValidEntries(ev.imported)[1].createdAt < ev.before[1].createdAt
    /\ Len(notes) = 3 /\ LoadNotes(stored) = notes
    /\ notes[1].createdAt > notes[3].createdAt

\* C6: when deleteNote(id) has returned, a load from persistence yields no
\* note with that id and the note's audio file does not exist.
C6_DeletedIsGone ==
    (ev.kind = "delete" /\ ev.ok) =>
        /\ ev.id \notin Ids(LoadNotes(stored))
        /\ ev.uri \notin files

\* C7 as stated: after a successful import every accepted entry precedes
\* every entry the list held before, whatever their createdAt.
C7_ImportedFirst ==
    (ev.kind = "restore" /\ ev.ok) =>
        \A i \in 1..Len(ValidEntries(ev.imported)), j \in 1..Len(ev.before) :
            Precedes(ev.list, ValidEntries(ev.imported)[i], ev.before[j])

\* C7 amended: after a successful import an accepted entry precedes every
\* entry the list held before whose createdAt is not greater than its own
\* (the merged list is sorted newest first, imported entries first on ties).
C7_ImportedFirstUnlessOlder ==
    (ev.kind = "restore" /\ ev.ok) =>
        \A i \in 1..Len(ValidEntries(ev.imported)), j \in 1..Len(ev.before) :
            ValidEntries(ev.imported)[i].createdAt >= ev.before[j].createdAt
                => Precedes(ev.list, ValidEntries(ev.imported)[i], ev.before[j])

\* an import has just succeeded whose accepted entry is as new as one of the
\* notes the list held, and older than another
C7_Witness ==
    /\ ev.kind = "restore" /\ ev.ok
    /\ \E i \in 1..Len(ValidEntries(ev.imported)), j, l \in 1..Len(ev.before) :
          /\ ValidEntries(ev.imported)[i].createdAt = ev.before[j].createdAt
          /\ ValidEntries(ev.imported)[i].createdAt < ev.before[l].createdAt
          /\ Precedes(ev.list, ev.before[l], ValidEntries(ev.imported)[i])

\* C8: a successful import accepts exactly the entries whose uri carries the
\* marker, rejects every entry whose uri lies outside the managed directory,
\* and its result holds the entries the list held plus the accepted ones.
C8_ImportFilter ==
    (ev.kind = "restore" /\ ev.ok) =>
        /\ Len(ev.list) = Len(ev.before) + Len(ValidEntries(ev.imported))
        /\ \A i \in 1..Len(ev.imported) :
              /\ Includes(ev.imported[i].uri, MARKER) => Occurs(ev.list, ev.imported[i])
              /\ ~StartsWith(ev.imported[i].uri, VOICE_DIR) => ~Occurs(ev.list, ev.imported[i])
        /\ \A j \in 1..Len(ev.before) : Occurs(ev.list, ev.before[j])

\* C12: renameNote(id, t) gives the title t to the notes with that id and
\* changes nothing else: the list keeps its length and order, every note its
\* id, uri, createdAt and duration, every other note its title; with an id
\* that no note has the list is unchanged.
C12_RenameFrame ==
    (ev.kind = "rename") =>
        /\ Len(ev.list) = Len(ev.before)
        /\ \A i \in 1..Len(ev.before) :
              ev.list[i] = IF ev.before[i].id = ev.id
                           THEN [ev.before[i] EXCEPT !.title = ev.title]
                           ELSE ev.before[i]
        /\ ev.id \notin Ids(ev.before) => ev.list = ev.before

\* a rename of one of two notes has completed: its title changed, the other
\* note is as it was
C12_Witness ==
    /\ ev.kind = "rename" /\ ev.ok
    /\ Len(ev.before) = 2
    /\ \E i, j \in 1..2 :
          /\ ev.before[i].id = ev.id /\ ev.list[i].title # ev.before[i].title
          /\ ev.before[j].id # ev.id /\ ev.list[j] = ev.before[j]

\* a step of a restore that has not reached its saveNotes: the call, a
\* settled pick, or an end by cancel or failure
RestoreStepBeforeSave ==
    \E k \in 1..MaxStoreCalls :
        /\ stask'[k] # stask[k]
        /\ \/ stask'[k].op = "restore" /\ stask'[k].pc \in {"pick", "read"}
           \/ stask[k].op = "restore" /\ stask[k].pc \in {"pick", "read"} /\ stask'[k].op = "done"

\* C17: no step of a restore before its saveNotes changes the list in memory
\* or the persisted list; a restore that ends on a cancelled pick shows
\* nothing, one that ends on a failed pick, read or parse shows one alert.
C17_FailedImportChangesNothing ==
    [][ /\ RestoreStepBeforeSave => (notes' = notes /\ stored' = stored)
        /\ (ev'.kind = "restore" /\ ev'.at = "cancelled") => ev'.alert = None
        /\ (ev'.kind = "restore" /\ ev'.at \in {"pick", "read"}) =>
              ev'.alert = "Restore failed" ]_vars

\* a restore has ended on a picked file that holds JSON that is not an array,
\* with two notes in the list, in memory and persisted
C17_Witness ==
    /\ ev.kind = "restore" /\ ~ev.ok /\ ev.at = "read" /\ ev.json = "object"
    /\ ev.alert = "Restore failed"
    /\ Len(ev.before) = 2 /\ notes = ev.before /\ LoadNotes(stored) = ev.before

\* C18: every mutation is applied to the list the previous mutation
\* produced: when a handler calls saveNotes, the list it read when it was
\* called is the list in memory.
C18_MutationsSequenced ==
    [][ \A k \in 1..MaxStoreCalls :
            (stask'[k].pc = "write" /\ stask[k].pc # "write") => stask'[k].notesC = notes ]_vars

\* C22: when deleteNote(id) has completed for a note whose file existed, a
\* note of another id that was in the list when it was called, is in the
\* list now and refers to the same file still has that file.
C22_DeleteKeepsSharedFile ==
    (ev.kind = "delete" /\ ev.ok /\ ev.existed) =>
        \A i \in 1..Len(notes) :
            (notes[i].id # ev.id /\ notes[i].uri = ev.uri /\ Occurs(ev.before, notes[i]))
                => ev.uri \in files

----------------------------------------------------------------------------
(* Properties of playback *)

LoadedSounds == { s \in 1..Len(sounds) : Loaded(s) }

\* playPause calls waiting for createAsync: sounds being loaded
Loading == { k \in 1..MaxPlayCalls : ptask[k].op = "play" /\ ptask[k].pc = "create" }

\* C1: at most one sound is loaded or being loaded, and a loaded sound is
\* the one the slot holds.
C1_OneSoundInSlot ==
    /\ Cardinality(LoadedSounds) + Cardinality(Loading) <= 1
    /\ \A s \in LoadedSounds : s = soundRef

\* C2: when a playPause that found a loaded sound in the slot starts its
\* load, that sound is no longer loaded, the slot is empty, playingId is
\* cleared and progress is 0.
C2_ReleasedBeforeLoad ==
    (ev.kind = "loadStart" /\ ev.prev # NoSound) =>
        /\ ~Loaded(ev.prev)
        /\ soundRef = NoSound
        /\ playingId = None
        /\ progress = 0

\* C3: when deleteNote(id) has returned for a note whose sound was in the
\* slot when it was called, the slot is empty, playingId is cleared and
\* progress is 0.
C3_DeleteReleasesSlot ==
    (ev.kind = "delete" /\ ev.ok /\ ev.held) =>
        /\ soundRef = NoSound
        /\ playingId = None
        /\ progress = 0

\* C13: progress is within [0,1] (0..100 here) in every state, and when a
\* playing sound has reported natural completion and the unload that the
\* callback issued did not fail, that sound is unloaded, the slot is empty,
\* playingId is cleared and progress is 0.
C13_FinishReleases ==
    /\ progress \in 0..100
    /\ (ev.kind = "finish" /\ ~ev.failed) =>
          /\ ~Loaded(ev.snd)
          /\ soundRef = NoSound
          /\ playingId = None
          /\ progress = 0

\* C14: when playPause(note, reverse) finds no reversed sibling file, the
\* user is told, the call goes on to load the note's own uri, and when it
\* has completed the one sound it made plays that uri.
C14_MissingReversedFallsBack ==
    /\ (ev.kind = "loadStart" /\ ev.reverse /\ reversedUriFor(ev.uri) \notin files) =>
          /\ ev.alert = "Reversed file not found"
          /\ \E k \in 1..MaxPlayCalls :
                /\ ptask[k].op = "play" /\ ptask[k].pc = "create"
                /\ ptask[k].note = ev.note /\ ptask[k].play = ev.uri
    /\ (ev.kind = "play" /\ ev.ok /\ ev.missing) =>
          /\ ev.snd = Len(sounds)
          /\ sounds[ev.snd].uri = ev.uri
          /\ sounds[ev.snd].st = "playing"

\* a reverse play of the note that has no reversed sibling has completed
\* and its sound plays the note's own file
C14_Witness ==
    /\ ev.kind = "play" /\ ev.ok /\ ev.reverse /\ ev.missing
    /\ reversedUriFor(ev.uri) \notin files
    /\ soundRef = ev.snd /\ sounds[ev.snd].uri = NoteB.uri

\* C15: a play request for the note whose paused sound is in the slot
\* resumes that session: when it starts a load or completes, the sound that
\* was paused is still loaded, still in the slot, and playing.
C15_ResumeKeepsSession ==
    ((ev.kind = "loadStart" \/ (ev.kind = "play" /\ ev.ok)) /\ ev.resume) =>
        /\ Loaded(ev.prev)
        /\ soundRef = ev.prev
        /\ sounds[ev.prev].st = "playing"

\* C20: when a sound reports completion while the slot holds another,
\* loaded sound, the sound in the slot stays loaded and in the slot, and playingId is what
\* it was.
C20_FinishClearsOnlyOwn ==
    (ev.kind = "finish" /\ ev.held /\ ev.slot # ev.snd) =>
        /\ Loaded(ev.slot)
        /\ soundRef = ev.slot
        /\ playingId = ev.pid

\* C9: when playback is started with the rate set to r and no sound loaded,
\* the sound is loaded at rate r and the stored rate is still r.
C9_RateKept ==
    (ev.kind = "play" /\ ev.ok /\ ev.rateC # 0) =>
        /\ sounds[ev.snd].rate = ev.rateC
        /\ rate = ev.rateC

\* C10: when playPause fails while querying, stopping or unloading the
\* previous sound, the failure is reported and the session is idle: the slot
\* is empty, playingId is cleared and progress is 0.
C10_FailureEndsIdle ==
    (ev.kind = "play" /\ ~ev.ok /\ ev.at \in {"status", "stop", "unload"}) =>
        /\ ev.alert = "Playback error"
        /\ soundRef = NoSound
        /\ playingId = None
        /\ progress = 0

----------------------------------------------------------------------------
(* Properties of the recorder modal *)

\* C11: when the modal is closed while a recording is held (Close, Done or
\* the back request), that recording is no longer live once onClose has run
\* and no note is saved for it.
C11_CloseDiscards ==
    /\ (ev.kind = "onClose" /\ ev.recording # NoRec) => recs[ev.recording] \notin Live
    /\ (ev.kind = "stopAndSave" /\ ev.by \in {"close", "done"}) => ~ev.saved

\* C16: when stopAndSave has failed (stopAndUnloadAsync or the status read
\* threw), the failure has been reported and the recorder is idle:
\* isRecording is false, no recording is held, processing is false.
C16_StopFailureEndsIdle ==
    (ev.kind = "stopAndSave" /\ ~ev.ok) =>
        /\ ev.alert = "Could not save recording."
        /\ ~isRecording
        /\ recording = NoRec
        /\ ~processing

\* C19: at most one Recording object is prepared or recording, and a
\* Recording that is recording is the one held in the modal's state.
C19_OneCapture ==
    /\ Cardinality({ r \in 1..Len(recs) : recs[r] \in Live }) <= 1
    /\ \A r \in 1..Len(recs) : recs[r] = "recording" => recording = r

\* the onSave calls made for Recording r, and the notes they put in the list
SavesOf(r) == { p \in saves : p[1] = r }

NotesOf(r) == { i \in 1..Len(notes) : \E p \in SavesOf(r) : notes[i].id = Uuid(p[2]) }

\* C21: for every Recording at most one onSave call has been made and at
\* most one note of it is in the list, however often stopAndSave was called.
C21_OneSavePerRecording ==
    \A r \in 1..Len(recs) :
        /\ Cardinality(SavesOf(r)) <= 1
        /\ Cardinality(NotesOf(r)) <= 1

====
